---------------------------- MODULE Spec2Model ----------------------------
(***************************************************************************)
(* A model of the gitar crate: the integer pitch encoding of note.rs       *)
(* (parse, display, transposition, the ascending iterator), the fretboard  *)
(* of guitar.rs (strings, the instrument, location lookup, the ASCII       *)
(* fret diagram) and the find command of main.rs.                          *)
(*                                                                         *)
(* Text is a sequence of one-character strings.  A usize is a natural      *)
(* number; the one place where the model leaves the 64-bit range (the      *)
(* unchecked subtraction of note.rs) keeps the wrapped value as its        *)
(* distance below 2^64.                                                    *)
(***************************************************************************)
EXTENDS Integers, Sequences, FiniteSets, TLC

VARIABLES
    pc,              \* where the modelled run stands
    text,            \* note.rs: the text given to / produced by a Note
    value,           \* note.rs: the value of the Note operated on
    alternate,       \* note.rs: the formatter's `#` flag
    semitones,       \* note.rs: the Interval operand (or the other Note)
    result,          \* note.rs: what the last operation returned
    open_note,       \* GuitarString::new: its open_note argument
    iter,            \* GuitarString::new: the NoteIter being consumed
    frets,           \* GuitarString::new: the Vec collected so far
    last,            \* GuitarString::new: the Option the last next() returned
    note,            \* main: the parsed note argument
    num_frets,       \* main / GuitarString::new: the fret count
    tuning,          \* main: the Option<Vec<Note>> of --tuning
    strings,         \* Guitar.strings: a sequence of fret sequences
    locations,       \* the Vec<FretboardLocation> found / to be drawn
    size,            \* FretDiagram.size
    stdout           \* what was written to the output sink

vars == <<pc, text, value, alternate, semitones, result, open_note, iter,
          frets, last, note, num_frets, tuning, strings, locations, size,
          stdout>>

noteVars == <<text, value, alternate, semitones, result>>
stringVars == <<open_note, iter, frets, last>>
guitarVars == <<note, tuning, strings>>
diagramVars == <<locations, size, stdout>>

\* ------------------------------------------------------------------ bounds

\* Longest text handed to Note::from_str.
MaxTextLen == 4
\* Highest octave whose notes are displayed and parsed back.
MaxOctave == 10
\* Largest operand of the Note / Interval arithmetic.
MaxOperand == 6
\* Largest fret count of a string or guitar.
MaxFrets == 12
\* Most strings of a tuning given on the command line.
MaxStrings == 3
\* Most locations handed to a FretDiagram directly.
MaxLocations == 2

\* ------------------------------------------------------------------- text

None == [some |-> FALSE, value |-> 0]
Some(v) == [some |-> TRUE, value |-> v]

\* The Option<Vec<Note>> of an absent --tuning.
NoTuning == [some |-> FALSE, value |-> <<>>]

Ok(v) == [ok |-> TRUE, value |-> v, err |-> ""]
Err(e) == [ok |-> FALSE, value |-> 0, err |-> e]

DigitChars == <<"0", "1", "2", "3", "4", "5", "6", "7", "8", "9">>

IsDigit(c) == \E i \in 1..10 : DigitChars[i] = c

DigitValue(c) == (CHOOSE i \in 1..10 : DigitChars[i] = c) - 1

\* `{}` of a usize: its decimal digits, no sign, no leading zero.
RECURSIVE Decimal(_)
Decimal(n) ==
    IF n < 10 THEN <<DigitChars[n + 1]>>
    ELSE Decimal(n \div 10) \o <<DigitChars[(n % 10) + 1]>>

\* The value of a run of decimal digits, most significant first.
RECURSIVE DigitsValue(_)
DigitsValue(ds) ==
    IF ds = <<>> THEN 0
    ELSE 10 * DigitsValue(SubSeq(ds, 1, Len(ds) - 1)) + DigitValue(ds[Len(ds)])

\* usize::from_str as note.rs calls it: an empty text and a lone sign are
\* errors, one leading "+" is skipped, "-" is no sign of an unsigned type,
\* and every remaining character must be a decimal digit.  The texts of
\* this model are far too short to exceed usize::MAX.
UsizeFromStr(s) ==
    IF s = <<>> THEN Err("cannot parse integer from empty string")
    ELSE IF Len(s) = 1 /\ s[1] \in {"+", "-"} THEN Err("invalid digit found in string")
    ELSE LET digits == IF s[1] = "+" THEN Tail(s) ELSE s
         IN  IF \A i \in 1..Len(digits) : IsDigit(digits[i])
             THEN Ok(DigitsValue(digits))
             ELSE Err("invalid digit found in string")

IsPrefix(p, s) == Len(p) <= Len(s) /\ SubSeq(s, 1, Len(p)) = p

\* ------------------------------------------------------------------- Note

\* The twelve names, in the order of the match arms of Display, which is
\* also the order in which from_str's alt tries its tags.  Entry i + 1
\* names the value i.
NoteNames ==
    << <<"C">>, <<"D", "b">>, <<"D">>, <<"E", "b">>, <<"E">>, <<"F">>,
       <<"G", "b">>, <<"G">>, <<"A", "b">>, <<"A">>, <<"B", "b">>, <<"B">> >>

\* nom's alt over the twelve map(tag(..)) parsers: the first tag, in the
\* listed order from index i on, that is a prefix of s wins and is cut off.
RECURSIVE AltNames(_, _)
AltNames(s, i) ==
    IF i > 12 THEN Err("failed to parse note name")
    ELSE IF IsPrefix(NoteNames[i], s)
         THEN [ok |-> TRUE, value |-> i - 1, err |-> "",
               rest |-> SubSeq(s, Len(NoteNames[i]) + 1, Len(s))]
         ELSE AltNames(s, i + 1)

\* A from_str that forgets the octave's factor of twelve.
NoteFromStrNoOctaveScale(s) ==
    LET name == AltNames(s, 1)
    IN  IF ~name.ok THEN Err(name.err)
        ELSE IF name.rest = <<>> THEN Ok(name.value)
        ELSE LET octave == UsizeFromStr(name.rest)
             IN  IF ~octave.ok THEN Err(octave.err)
                 ELSE Ok(name.value + octave.value)

\* <Note as FromStr>::from_str
NoteFromStr(s) ==
    LET name == AltNames(s, 1)
    IN  IF ~name.ok THEN Err(name.err)
        ELSE IF name.rest = <<>> THEN Ok(name.value + 0 * 12)
        ELSE LET octave == UsizeFromStr(name.rest)
             IN  IF ~octave.ok THEN Err(octave.err)
                 ELSE Ok(name.value + octave.value * 12)

\* <Note as Display>::fmt
NoteDisplay(v, alt) ==
    LET name == NoteNames[(v % 12) + 1]
    IN  IF alt THEN name ELSE name \o Decimal(v \div 12)

\* <Note as Add<Interval>>::add
NoteAddInterval(v, s) == [kind |-> "note", value |-> v + s]

\* <Note as Sub<Interval>>::sub.  The subtraction is the plain `-` of usize:
\* with overflow checks (the dev profile) an underflow panics, without them
\* (the release profile) it wraps to 2^64 - (s - v), kept as that distance
\* s - v below 2^64.
NoteSubInterval(v, s, overflow_checks) ==
    IF s <= v THEN [kind |-> "note", value |-> v - s]
    ELSE IF overflow_checks
         THEN [kind |-> "panic", value |-> 0]
         ELSE [kind |-> "wrapped", value |-> s - v]

\* <Note as Sub>::sub, the Interval between two notes.
NoteSubNote(v, w) ==
    IF v > w THEN [kind |-> "interval", value |-> v - w]
    ELSE IF v < w THEN [kind |-> "interval", value |-> w - v]
    ELSE [kind |-> "interval", value |-> 0]

\* Note::into_iter
NoteIntoIter(v) == [note |-> v, first |-> TRUE]

\* A next() without the `first` branch: it always steps before yielding.
NoteIterNextAlwaysSteps(it) ==
    [item |-> Some(it.note + 1), iter |-> [note |-> it.note + 1, first |-> FALSE]]

\* NoteIter::next: the item and the iterator as it is left.
NoteIterNext(it) ==
    IF it.first
    THEN [item |-> Some(it.note), iter |-> [note |-> it.note, first |-> FALSE]]
    ELSE [item |-> Some(it.note + 1), iter |-> [note |-> it.note + 1, first |-> FALSE]]

\* --------------------------------------------------- the Note operations

\* The characters of the texts handed to from_str: name letters, the flat
\* sign, both arithmetic signs and two digits.
TextChars == {"C", "D", "G", "b", "+", "-", "0", "2"}

Texts == UNION {[1..k -> TextChars] : k \in 0..MaxTextLen}

NoResult == [kind |-> "none", value |-> 0]

InitNote ==
    /\ pc \in {"parse", "display", "arith"}
    /\ text \in (IF pc = "parse" THEN Texts ELSE {<<>>})
    /\ value \in (IF pc = "display" THEN 0..(12 * (MaxOctave + 1) - 1)
                  ELSE IF pc = "arith" THEN 0..MaxOperand ELSE {0})
    /\ alternate \in (IF pc = "display" THEN BOOLEAN ELSE {FALSE})
    /\ semitones \in (IF pc = "arith" THEN 0..MaxOperand ELSE {0})
    /\ result = NoResult
    /\ open_note = 0 /\ iter = NoteIntoIter(0) /\ frets = <<>> /\ last = None
    /\ note = 0 /\ num_frets = 0 /\ tuning = NoTuning /\ strings = <<>>
    /\ locations = <<>> /\ size = "Small" /\ stdout = <<>>

\* format!("{}", note) or format!("{:#}", note)
Display ==
    /\ pc = "display"
    /\ text' = NoteDisplay(value, alternate)
    /\ pc' = "displayed"
    /\ UNCHANGED <<value, alternate, semitones, result, stringVars,
                   num_frets, guitarVars, diagramVars>>

\* Note::from_str(text), of a given text or of a displayed note
Parse ==
    /\ pc \in {"parse", "displayed"}
    /\ result' = NoteFromStr(text)
    /\ pc' = (IF pc = "parse" THEN "parsed" ELSE "reparsed")
    /\ UNCHANGED <<text, value, alternate, semitones, stringVars,
                   num_frets, guitarVars, diagramVars>>

\* Note::new(value) + Interval::new(semitones)
AddInterval ==
    /\ pc = "arith"
    /\ result' = NoteAddInterval(value, semitones)
    /\ pc' = "added"
    /\ UNCHANGED <<text, value, alternate, semitones, stringVars,
                   num_frets, guitarVars, diagramVars>>

\* Note::new(value) - Interval::new(semitones), in either build profile
SubInterval ==
    /\ pc = "arith"
    /\ \E overflow_checks \in BOOLEAN :
           result' = NoteSubInterval(value, semitones, overflow_checks)
    /\ pc' = "subtracted"
    /\ UNCHANGED <<text, value, alternate, semitones, stringVars,
                   num_frets, guitarVars, diagramVars>>

\* Note::new(value) - Note::new(semitones)
SubNote ==
    /\ pc = "arith"
    /\ result' = NoteSubNote(value, semitones)
    /\ pc' = "measured"
    /\ UNCHANGED <<text, value, alternate, semitones, stringVars,
                   num_frets, guitarVars, diagramVars>>

NextNote == Display \/ Parse \/ AddInterval \/ SubInterval \/ SubNote

SpecNote == InitNote /\ [][NextNote]_vars

\* ----------------------------------------------------------- GuitarString

\* Open pitches of the strings built: E2, A2 and E3, an octave above E2.
OpenNotes == {28, 33, 40}

\* Iterator::take(n).collect() over a NoteIter: up to n items, ending early
\* only if next() returns None.
RECURSIVE TakeCollect(_, _)
TakeCollect(it, n) ==
    IF n = 0 THEN <<>>
    ELSE LET r == NoteIterNext(it)
         IN  IF r.item.some
             THEN <<r.item.value>> \o TakeCollect(r.iter, n - 1)
             ELSE <<>>

\* GuitarString::new: the frets of the string (1 is added to num_frets to
\* include the open string).
GuitarStringNew(open, n_frets) == TakeCollect(NoteIntoIter(open), n_frets + 1)

InitString ==
    /\ pc = "string_new"
    /\ open_note \in OpenNotes
    /\ num_frets \in 0..MaxFrets
    /\ iter = NoteIntoIter(0) /\ frets = <<>> /\ last = None
    /\ text = <<>> /\ value = 0 /\ alternate = FALSE /\ semitones = 0
    /\ result = NoResult
    /\ note = 0 /\ tuning = NoTuning /\ strings = <<>>
    /\ locations = <<>> /\ size = "Small" /\ stdout = <<>>

\* open_note.into_iter()
IntoIter ==
    /\ pc = "string_new"
    /\ iter' = NoteIntoIter(open_note)
    /\ pc' = "taking"
    /\ UNCHANGED <<open_note, frets, last, num_frets, noteVars, guitarVars,
                   diagramVars>>

\* One next() of the iterator under take(num_frets + 1), its item collected.
TakeNext ==
    /\ pc = "taking"
    /\ Len(frets) < num_frets + 1
    /\ LET r == NoteIterNext(iter)
       IN  /\ iter' = r.iter
           /\ last' = r.item
           /\ frets' = (IF r.item.some THEN Append(frets, r.item.value) ELSE frets)
           /\ pc' = (IF r.item.some THEN "taking" ELSE "collected")
    /\ UNCHANGED <<open_note, num_frets, noteVars, guitarVars, diagramVars>>

\* take() is used up: collect() returns the Vec.
Collect ==
    /\ pc = "taking"
    /\ Len(frets) = num_frets + 1
    /\ pc' = "collected"
    /\ UNCHANGED <<stringVars, num_frets, noteVars, guitarVars, diagramVars>>

NextString == IntoIter \/ TakeNext \/ Collect

SpecString == InitString /\ [][NextString]_vars

\* ----------------------------------------------------------------- Guitar

Reverse(seq) == [i \in 1..Len(seq) |-> seq[Len(seq) + 1 - i]]

\* A Guitar::new without the .rev(): strings in the order of the tuning.
GuitarNewNoRev(n_frets, tun) ==
    [i \in 1..Len(tun) |-> GuitarStringNew(tun[i], n_frets)]

\* Guitar::new: one GuitarString per open note, the tuning reversed.
GuitarNew(n_frets, tun) ==
    LET rev == Reverse(tun)
    IN  [i \in 1..Len(rev) |-> GuitarStringNew(rev[i], n_frets)]

\* FretboardLocation::new
FretboardLocation(string_number, fret_number) ==
    [string_number |-> string_number, fret_number |-> fret_number]

\* The inner loop of Guitar::locations, from fret_idx on.
RECURSIVE ScanFrets(_, _, _, _)
ScanFrets(string, q, string_idx, fret_idx) ==
    IF fret_idx >= Len(string) THEN <<>>
    ELSE (IF string[fret_idx + 1] = q
          THEN <<FretboardLocation(string_idx + 1, fret_idx)>>
          ELSE <<>>)
         \o ScanFrets(string, q, string_idx, fret_idx + 1)

\* The outer loop of Guitar::locations, from string_idx on.
RECURSIVE ScanStrings(_, _, _)
ScanStrings(strs, q, string_idx) ==
    IF string_idx >= Len(strs) THEN <<>>
    ELSE ScanFrets(strs[string_idx + 1], q, string_idx, 0)
         \o ScanStrings(strs, q, string_idx + 1)

\* A locations that compares with the octave disregarded (value % 12).
GuitarLocationsAnyOctave(strs, q) ==
    ScanStrings([i \in 1..Len(strs) |->
                    [j \in 1..Len(strs[i]) |-> strs[i][j] % 12]], q % 12, 0)

\* A locations that scans the strings from the last to the first.
GuitarLocationsBackwards(strs, q) == Reverse(ScanStrings(strs, q, 0))

\* Guitar::locations
GuitarLocations(strs, q) == ScanStrings(strs, q, 0)

\* Note::new(NoteName, octave) as standard_tuning calls it: the value of
\* the named pitch class in the given octave.
NoteOf(name, octave) ==
    (CHOOSE i \in 1..12 : NoteNames[i] = name) - 1 + 12 * octave

\* standard_tuning
StandardTuning ==
    << NoteOf(<<"E">>, 2), NoteOf(<<"A">>, 2), NoteOf(<<"D">>, 3),
       NoteOf(<<"G">>, 3), NoteOf(<<"B">>, 3), NoteOf(<<"E">>, 4) >>

\* ------------------------------------------------------------ FretDiagram

\* The fold's initial value: the rows every diagram shows at least.
MinFrets == 5
\* The strings the diagram draws: `(1..=6).rev()`.
DiagramStrings == 6

Sizes == {"Small", "Medium", "Large"}

NL == "\n"

Rep(c, n) == [i \in 1..n |-> c]

\* locations.iter().fold(5, |acc, fbl| max(fbl.fret_number, acc)), from
\* element i on.
RECURSIVE FoldHighest(_, _, _)
FoldHighest(locs, i, acc) ==
    IF i > Len(locs) THEN acc
    ELSE FoldHighest(locs, i + 1,
                     IF locs[i].fret_number >= acc THEN locs[i].fret_number ELSE acc)

HighestFret(locs) == FoldHighest(locs, 1, MinFrets)

\* The loop over the locations for one cell, from element i on: "*" at the
\* first location of this fret and string, else "|" once all are passed.
RECURSIVE CellSymbol(_, _, _, _)
CellSymbol(locs, i, fret, string) ==
    IF i > Len(locs) THEN "|"
    ELSE IF locs[i].fret_number = fret /\ locs[i].string_number = string
         THEN "*"
         ELSE CellSymbol(locs, i + 1, fret, string)

\* Cells drawn in ascending string order: string 1 leftmost.
RowSymbolsAscending(locs, fret) ==
    [k \in 1..DiagramStrings |-> CellSymbol(locs, 1, fret, k)]

\* The cells of one fret row: `for string in (1..=6).rev()`.
RowSymbols(locs, fret) ==
    [k \in 1..DiagramStrings |-> CellSymbol(locs, 1, fret, DiagramStrings + 1 - k)]

SmallRow(locs, fret) ==
    RowSymbols(locs, fret) \o <<" ">> \o Decimal(fret) \o <<NL>>

MediumRow(locs, fret) ==
    RowSymbols(locs, fret) \o <<" ", " ">> \o Decimal(fret) \o <<NL>>
    \o Rep("-", 6) \o <<NL>>

LargeRow(locs, fret) ==
    LET symbols == RowSymbols(locs, fret)
    IN  <<" ", "|", " ", "|", " ", "|", " ", "|", " ", "|", " ", "|", " ", NL>>
        \o <<" ", symbols[1], " ", symbols[2], " ", symbols[3], " ", symbols[4],
             " ", symbols[5], " ", symbols[6], " ", " ">>
        \o Decimal(fret) \o <<NL>>
        \o <<" ", "|", "-", "|", "-", "|", "-", "|", "-", "|", "-", "|", " ", NL>>

\* `for fret in 1..=highest_fret`, from fret on, in the given size.
RECURSIVE FretRows(_, _, _, _)
FretRows(locs, sz, fret, highest_fret) ==
    IF fret > highest_fret THEN <<>>
    ELSE (IF sz = "Small" THEN SmallRow(locs, fret)
          ELSE IF sz = "Medium" THEN MediumRow(locs, fret)
          ELSE LargeRow(locs, fret))
         \o FretRows(locs, sz, fret + 1, highest_fret)

DiagramHeader(sz) ==
    IF sz = "Small" THEN Rep("_", 6) \o <<" ", " ", NL>>
    ELSE IF sz = "Medium" THEN Rep("_", 6) \o <<NL>> \o Rep("-", 6) \o <<NL>>
    ELSE <<"_", "|", "_", "|", "_", "|", "_", "|", "_", "|", "_", "|", "_", NL>>
         \o <<"-", "|", "-", "|", "-", "|", "-", "|", "-", "|", "-", "|", "-", NL>>

\* A fmt whose rows start at fret 0.
FretDiagramFmtFromZero(locs, sz) ==
    DiagramHeader(sz) \o FretRows(locs, sz, 0, HighestFret(locs))

\* A fmt that always draws the five default rows.
FretDiagramFmtFiveRows(locs, sz) ==
    DiagramHeader(sz) \o FretRows(locs, sz, 1, MinFrets)

\* <FretDiagram as Display>::fmt: everything written to the formatter.
FretDiagramFmt(locs, sz) ==
    DiagramHeader(sz) \o FretRows(locs, sz, 1, HighestFret(locs))

\* The locations handed to a diagram directly: strings inside and outside
\* 1..6, frets at and around the default five rows, and a two-digit fret.
LocStringNumbers == {0, 1, 2, 6, 7}
LocFretNumbers == {0, 1, 5, 6, 10}

InitDiagram ==
    /\ pc = "locations"
    /\ locations = <<>> /\ size = "Small" /\ stdout = <<>>
    /\ text = <<>> /\ value = 0 /\ alternate = FALSE /\ semitones = 0
    /\ result = NoResult
    /\ open_note = 0 /\ iter = NoteIntoIter(0) /\ frets = <<>> /\ last = None
    /\ note = 0 /\ num_frets = 0 /\ tuning = NoTuning /\ strings = <<>>

\* The caller pushes one more FretboardLocation::new(s, f) on its Vec.
PushLocation ==
    /\ pc = "locations"
    /\ Len(locations) < MaxLocations
    /\ \E s \in LocStringNumbers, f \in LocFretNumbers :
           locations' = Append(locations, FretboardLocation(s, f))
    /\ UNCHANGED <<pc, size, stdout, noteVars, stringVars, num_frets, guitarVars>>

\* FretDiagram::new(locations, size)
NewDiagram ==
    /\ pc = "locations"
    /\ \E sz \in Sizes : size' = sz
    /\ pc' = "diagram"
    /\ UNCHANGED <<locations, stdout, noteVars, stringVars, num_frets, guitarVars>>

\* format!("{}", diagram)
Fmt ==
    /\ pc = "diagram"
    /\ stdout' = FretDiagramFmt(locations, size)
    /\ pc' = "drawn"
    /\ UNCHANGED <<locations, size, noteVars, stringVars, num_frets, guitarVars>>

NextDiagram == PushLocation \/ NewDiagram \/ Fmt

SpecDiagram == InitDiagram /\ [][NextDiagram]_vars

\* ------------------------------------------------------------------- main

\* Tunings given with --tuning: up to MaxStrings open notes, in any order.
Tunings == UNION {[1..n -> OpenNotes] : n \in 0..MaxStrings}

AllOpenNotes == OpenNotes \cup {StandardTuning[i] : i \in 1..Len(StandardTuning)}

Lowest(S) == CHOOSE x \in S : \A y \in S : x <= y
Highest(S) == CHOOSE x \in S : \A y \in S : x >= y

\* The notes asked for: from just below every open string to just above
\* the last fret of the highest one.
QueryNotes == (Lowest(AllOpenNotes) - 1)..(Highest(AllOpenNotes) + MaxFrets + 1)

NoOccurences ==
    <<"N", "o", " ", "o", "c", "c", "u", "r", "e", "n", "c", "e", "s", ".">>

\* A main that draws the Medium diagram.
PrintedMedium(locs) ==
    IF Len(locs) > 0
    THEN FretDiagramFmt(locs, "Medium") \o <<NL>>
    ELSE NoOccurences \o <<NL>>

\* What main's if / else prints for the locations found.
Printed(locs) ==
    IF Len(locs) > 0
    THEN FretDiagramFmt(locs, "Small") \o <<NL>>
    ELSE NoOccurences \o <<NL>>

\* The arguments of `find` as structopt hands them over.
Init ==
    /\ pc = "main"
    /\ note \in QueryNotes
    /\ num_frets \in 0..MaxFrets
    /\ tuning \in {NoTuning} \cup {Some(t) : t \in Tunings}
    /\ strings = <<>> /\ locations = <<>> /\ size = "Small" /\ stdout = <<>>
    /\ text = <<>> /\ value = 0 /\ alternate = FALSE /\ semitones = 0
    /\ result = NoResult
    /\ open_note = 0 /\ iter = NoteIntoIter(0) /\ frets = <<>> /\ last = None

\* tuning.unwrap_or(standard_tuning()) and Guitar::new(num_frets, tuning)
MainGuitar ==
    /\ pc = "main"
    /\ LET tun == IF tuning.some THEN tuning.value ELSE StandardTuning
       IN  strings' = GuitarNew(num_frets, tun)
    /\ pc' = "guitar"
    /\ UNCHANGED <<note, num_frets, tuning, diagramVars, noteVars, stringVars>>

\* guitar.locations(note)
MainLocations ==
    /\ pc = "guitar"
    /\ locations' = GuitarLocations(strings, note)
    /\ pc' = "located"
    /\ UNCHANGED <<note, num_frets, tuning, strings, size, stdout, noteVars,
                   stringVars>>

\* The println! of either branch.
MainPrint ==
    /\ pc = "located"
    /\ stdout' = Printed(locations)
    /\ pc' = "done"
    /\ UNCHANGED <<note, num_frets, tuning, strings, locations, size, noteVars,
                   stringVars>>

Next == MainGuitar \/ MainLocations \/ MainPrint

Spec == Init /\ [][Next]_vars

\* ================================================================= claims

\* ---- note.rs

\* C3 as stated.  Note - Interval with more semitones than the note's value
\* is surfaced as an error: the subtraction yields no pitch at all, wrapped
\* or otherwise.
C3_UnderflowIsAnError ==
    (pc = "subtracted" /\ semitones > value) => result.kind = "panic"

\* The longest of the twelve names that is a prefix of s, as the set of
\* its table indices (empty when no name is a prefix).
C4_LongestName(s) ==
    {i \in 1..12 :
        /\ IsPrefix(NoteNames[i], s)
        /\ \A j \in 1..12 : IsPrefix(NoteNames[j], s) =>
                                Len(NoteNames[j]) <= Len(NoteNames[i])}

\* C4 as stated.  from_str accepts a text iff it is one of the twelve names
\* (longest first) followed by nothing or by a run of decimal digits, the
\* value then being name_index + 12 * octave; any other text, a signed
\* remainder included, is an error.
C4_AcceptsExactlyNameAndDigits ==
    pc = "parsed" =>
        LET names == C4_LongestName(text)
            i == CHOOSE n \in names : TRUE
            rest == SubSeq(text, Len(NoteNames[i]) + 1, Len(text))
            wellFormed ==
                /\ names # {}
                /\ \A k \in 1..Len(rest) : IsDigit(rest[k])
        IN  /\ result.ok <=> wellFormed
            /\ result.ok =>
                   result.value = (i - 1) + 12 * DigitsValue(rest)

\* The table of pitch-class names, written out for the round trip.
C5_Name(i) ==
    CASE i = 0 -> <<"C">> [] i = 1 -> <<"D", "b">> [] i = 2 -> <<"D">>
      [] i = 3 -> <<"E", "b">> [] i = 4 -> <<"E">> [] i = 5 -> <<"F">>
      [] i = 6 -> <<"G", "b">> [] i = 7 -> <<"G">> [] i = 8 -> <<"A", "b">>
      [] i = 9 -> <<"A">> [] i = 10 -> <<"B", "b">> [] i = 11 -> <<"B">>

\* C5.  A note of value v = index + 12 * o, o in 0..MaxOctave, displayed in
\* the default form reads as the table name of v mod 12 followed by v div 12
\* in decimal (digits only, no leading zero), and parsing that text gives
\* back Ok of a note of value v.
C5_DisplayParseRoundTrip ==
    (pc = "reparsed" /\ ~alternate) =>
        LET name == C5_Name(value % 12)
            digits == SubSeq(text, Len(name) + 1, Len(text))
        IN  /\ IsPrefix(name, text)
            /\ digits # <<>>
            /\ \A k \in 1..Len(digits) : IsDigit(digits[k])
            /\ Len(digits) > 1 => digits[1] # "0"
            /\ DigitsValue(digits) = value \div 12
            /\ result.ok
            /\ result.value = value

C5_Witness ==
    /\ pc = "reparsed" /\ ~alternate
    /\ value = 130
    /\ text = <<"B", "b", "1", "0">>
    /\ result.ok /\ result.value = 130

\* ---- GuitarString::new and NoteIter

\* C8.  While GuitarString::new(open_note, num_frets) collects, the i-th
\* item the iterator returned has value open_note + i - 1 (the first one
\* the open note itself), every next() returned Some, the collected Vec
\* ends with num_frets + 1 items (the frets GuitarString::new returns), and
\* no step changes open_note.
C8_StringAscends ==
    /\ [](pc \in {"taking", "collected"} =>
            /\ \A i \in 1..Len(frets) : frets[i] = open_note + (i - 1)
            /\ Len(frets) > 0 => (last.some /\ last.value = frets[Len(frets)])
            /\ pc = "collected" =>
                   /\ Len(frets) = num_frets + 1
                   /\ frets = GuitarStringNew(open_note, num_frets))
    /\ [][open_note' = open_note]_vars

C8_Witness ==
    /\ pc = "collected"
    /\ num_frets = 12
    /\ open_note = 28
    /\ frets[1] = 28 /\ frets[13] = 40
    /\ iter.note = 40

\* ---- Guitar

\* The tuning main passes on, the standard one written out as values
\* (E2 A2 D3 G3 B3 E4).
GivenTuning == IF tuning.some THEN tuning.value ELSE <<28, 33, 38, 43, 47, 52>>

LocationSet == {locations[i] : i \in 1..Len(locations)}

\* C1.  Guitar::locations(note) returns exactly the (s, f), 1 <= s <= number
\* of strings, 0 <= f <= num_frets, whose string s holds at fret f a pitch of
\* the value of note; a pitch of the same class in another octave is never
\* returned; an empty tuning, a note below every open pitch or one above
\* every open pitch + num_frets gives nothing.
C1_LocationsExact ==
    pc \in {"located", "done"} =>
        /\ LocationSet =
               {l \in [string_number : 1..Len(strings), fret_number : 0..num_frets] :
                   strings[l.string_number][l.fret_number + 1] = note}
        /\ \A l \in LocationSet :
               strings[l.string_number][l.fret_number + 1] = note
        /\ GivenTuning = <<>> => locations = <<>>
        /\ (\A i \in 1..Len(GivenTuning) : note < GivenTuning[i]) => locations = <<>>
        /\ (\A i \in 1..Len(GivenTuning) : note > GivenTuning[i] + num_frets)
               => locations = <<>>

\* Two strings hold the note, and a third position holds its pitch class an
\* octave away without being returned.
C1_Witness ==
    /\ pc = "located"
    /\ Len(locations) >= 2
    /\ \E s \in 1..Len(strings), f \in 0..num_frets :
           /\ strings[s][f + 1] # note
           /\ strings[s][f + 1] % 12 = note % 12
           /\ FretboardLocation(s, f) \notin LocationSet

\* C2.  Guitar::new reverses the tuning once: string number s of N has the
\* (N + 1 - s)-th open pitch of the tuning, so for an ascending tuning
\* string 1 is the highest and string N the lowest, and every location
\* reported numbers its string the same way.
C2_ReversedOnce ==
    pc \in {"guitar", "located", "done"} =>
        LET N == Len(GivenTuning)
        IN  /\ Len(strings) = N
            /\ \A s \in 1..N : strings[s][1] = GivenTuning[N + 1 - s]
            /\ (\A i \in 1..(N - 1) : GivenTuning[i] <= GivenTuning[i + 1]) =>
                   \A s \in 1..N : /\ strings[1][1] >= strings[s][1]
                                   /\ strings[N][1] <= strings[s][1]
            /\ pc # "guitar" =>
                   \A l \in LocationSet :
                       /\ l.string_number \in 1..N
                       /\ GivenTuning[N + 1 - l.string_number] + l.fret_number = note

\* A two-string tuning E2 A2: A2 is found open on string 1 and at fret 5 of
\* string 2.
C2_Witness ==
    /\ pc = "located"
    /\ tuning = Some(<<28, 33>>)
    /\ note = 33
    /\ num_frets >= 5
    /\ locations = <<FretboardLocation(1, 0), FretboardLocation(2, 5)>>

\* C10.  The locations are listed in scan order: strictly increasing in
\* (string_number, fret_number), so none is listed twice.
C10_ScanOrder ==
    pc \in {"located", "done"} =>
        \A i, j \in 1..Len(locations) :
            i < j =>
                \/ locations[i].string_number < locations[j].string_number
                \/ /\ locations[i].string_number = locations[j].string_number
                   /\ locations[i].fret_number < locations[j].fret_number

\* E3 on a standard guitar of 12 frets: strings 4, 5 and 6, in that order.
C10_Witness ==
    /\ pc = "located"
    /\ ~tuning.some
    /\ note = 40
    /\ num_frets = 12
    /\ locations = <<FretboardLocation(4, 2), FretboardLocation(5, 7),
                     FretboardLocation(6, 12)>>

\* ---- the printed text

\* The position of the first line break of a text at or after character i,
\* or one past its end when there is none.
RECURSIVE NextBreak(_, _)
NextBreak(buf, i) ==
    IF i > Len(buf) \/ buf[i] = NL THEN i ELSE NextBreak(buf, i + 1)

\* The lines of a text from character i on, each without the line break
\* that ends it; a last line without a line break counts when not empty.
RECURSIVE SplitLines(_, _)
SplitLines(buf, i) ==
    IF i > Len(buf) THEN <<>>
    ELSE LET p == NextBreak(buf, i)
         IN  <<SubSeq(buf, i, p - 1)>> \o SplitLines(buf, p + 1)

Lines(buf) == SplitLines(buf, 1)

\* H = max(5, largest fret_number of the list).
ClaimedH(locs) == Highest({5} \cup {locs[i].fret_number : i \in 1..Len(locs)})

HeaderLines(sz) == IF sz = "Small" THEN 1 ELSE 2
LinesPerRow(sz) == IF sz = "Small" THEN 1 ELSE IF sz = "Medium" THEN 2 ELSE 3

\* The line of the diagram that carries the cells and label of fret row f.
RowLine(sz, f) ==
    IF sz = "Small" THEN 1 + f ELSE IF sz = "Medium" THEN 1 + 2 * f ELSE 1 + 3 * f

\* The label of a fret row line: what follows the cells and the spacing.
RowLabel(sz, line) ==
    IF sz = "Small" THEN SubSeq(line, 8, Len(line))
    ELSE IF sz = "Medium" THEN SubSeq(line, 9, Len(line))
    ELSE SubSeq(line, 15, Len(line))

\* The characters of a fret row line before its label.
RowCellPart(sz, line) ==
    IF sz = "Small" THEN SubSeq(line, 1, 7)
    ELSE IF sz = "Medium" THEN SubSeq(line, 1, 8)
    ELSE SubSeq(line, 1, 14)

\* The cell symbols of a row line, left to right.
RowCells(sz, line) ==
    LET part == RowCellPart(sz, line)
    IN  SelectSeq(part, LAMBDA c : c \in {"*", "|"})

IsLabelOf(label, f) ==
    /\ label # <<>>
    /\ \A k \in 1..Len(label) : IsDigit(label[k])
    /\ Len(label) > 1 => label[1] # "0"
    /\ DigitsValue(label) = f

\* C6.  In each size the diagram has exactly H fret rows, H = max(5, largest
\* fret_number), labelled 1, 2, ..., H from the top; every other line is a
\* header or separator line without a label; an empty list gives H = 5 and
\* only "|" cells.
C6_RowsOneToH ==
    pc = "drawn" =>
        LET lines == Lines(stdout)
            H == ClaimedH(locations)
            rowLines == {RowLine(size, f) : f \in 1..H}
        IN  /\ Len(lines) = HeaderLines(size) + LinesPerRow(size) * H
            /\ \A f \in 1..H : IsLabelOf(RowLabel(size, lines[RowLine(size, f)]), f)
            /\ \A n \in (1..Len(lines)) \ rowLines :
                   \A k \in 1..Len(lines[n]) :
                       ~IsDigit(lines[n][k]) /\ lines[n][k] # "*"
            /\ locations = <<>> =>
                   /\ H = 5
                   /\ \A f \in 1..H :
                          RowCells(size, lines[RowLine(size, f)]) = Rep("|", 6)

\* A Large diagram of ten rows.
C6_Witness ==
    /\ pc = "drawn"
    /\ size = "Large"
    /\ locations = <<FretboardLocation(1, 10), FretboardLocation(6, 1)>>
    /\ Len(Lines(stdout)) = 32

\* C7.  Every fret row f carries exactly six cell symbols, the k-th from the
\* left being "*" iff the list holds a location of string 7 - k and fret f
\* and "|" otherwise; locations of fret 0 or of a string outside 1..6 give
\* no "*".
C7_CellsMarkLocations ==
    pc = "drawn" =>
        LET lines == Lines(stdout)
            H == ClaimedH(locations)
            drawable == {l \in LocationSet :
                            l.string_number \in 1..6 /\ l.fret_number >= 1}
            stars == {p \in (1..Len(stdout)) : stdout[p] = "*"}
        IN  /\ \A f \in 1..H :
                   LET cells == RowCells(size, lines[RowLine(size, f)])
                   IN  /\ Len(cells) = 6
                       /\ \A k \in 1..6 :
                              cells[k] = (IF FretboardLocation(7 - k, f) \in LocationSet
                                          THEN "*" ELSE "|")
            /\ Cardinality(stars) = Cardinality(drawable)

\* String 6 at fret 1 is drawn leftmost in the first row; the open string 1
\* is not drawn.
C7_Witness ==
    /\ pc = "drawn"
    /\ size = "Small"
    /\ locations = <<FretboardLocation(6, 1), FretboardLocation(1, 0)>>
    /\ Lines(stdout)[2] = <<"*", "|", "|", "|", "|", "|", " ", "1">>

\* C9.  When locations is not empty main prints the Small diagram of all of
\* them and a line break (the Small header first, one line per fret row, an
\* empty line last) and never "No occurences."; when it is empty main prints
\* the one line "No occurences." and nothing else.  Without --tuning the
\* guitar is the standard one.
C9_DiagramOrNoOccurences ==
    /\ (pc # "main" /\ ~tuning.some) =>
           /\ Len(strings) = 6
           /\ <<strings[6][1], strings[5][1], strings[4][1], strings[3][1],
                strings[2][1], strings[1][1]>> = <<28, 33, 38, 43, 47, 52>>
    /\ pc = "done" =>
        LET lines == Lines(stdout)
            line == <<"N", "o", " ", "o", "c", "c", "u", "r", "e", "n", "c", "e", "s", ".">>
        IN  IF Len(locations) >= 1
            THEN /\ stdout = FretDiagramFmt(locations, "Small") \o <<NL>>
                 /\ lines[1] = <<"_", "_", "_", "_", "_", "_", " ", " ">>
                 /\ Len(lines) = 1 + ClaimedH(locations) + 1
                 /\ lines[Len(lines)] = <<>>
                 /\ \A n \in 1..Len(lines) : lines[n] # line
            ELSE stdout = line \o <<NL>>

\* E3 on the standard guitar: a diagram of twelve rows is printed.
C9_Witness ==
    /\ pc = "done"
    /\ ~tuning.some
    /\ note = 40 /\ num_frets = 12
    /\ Len(locations) = 3
    /\ Len(Lines(stdout)) = 14
    /\ Lines(stdout)[13] = <<"*", "|", "|", "|", "|", "|", " ", "1", "2">>

=============================================================================
